---- MODULE Spec2Model ----
(***************************************************************************)
(* A model of services/v1/video/concatenate.py: the video concatenation    *)
(* job (process_video_concatenate), its transition planner, its timing     *)
(* resolver and the left-to-right fold that builds the composite.          *)
(*                                                                         *)
(* Durations are seconds in the source; the model keeps them as exact      *)
(* integers in hundredths of a second (0.05 s = 5, 0.2 s = 20, 5.0 s =     *)
(* 500).  Names (transition types) are sequences of one-character strings  *)
(* so that str.lower() is computed character by character.  Gains are     *)
(* whole dB.  A filter graph is the sequence of statements compile() emits *)
(* for it, an engine command its inputs, graph and mapped labels.          *)
(***************************************************************************)
EXTENDS Integers, Sequences, FiniteSets, TLC

(***************************************************************************)
(* Bounds of the model.                                                    *)
(***************************************************************************)
MaxClips == 3
MaxFoldClips == 3
MaxSfxClips == 3

(***************************************************************************)
(* Program constants, in hundredths of a second.                           *)
(***************************************************************************)
MIN_TRANSITION_DURATION == 20
MAX_TRANSITION_DURATION == 500
SAFETY_MARGIN == 5

Min(a, b) == IF a <= b THEN a ELSE b
Max(a, b) == IF a >= b THEN a ELSE b

(***************************************************************************)
(* Strings.  None is Python's None where a name is expected; "" is <<>>.   *)
(***************************************************************************)
None == <<"<None>">>

LowerCaseLetters ==
    <<"a","b","c","d","e","f","g","h","i","j","k","l","m",
      "n","o","p","q","r","s","t","u","v","w","x","y","z">>
UpperCaseLetters ==
    <<"A","B","C","D","E","F","G","H","I","J","K","L","M",
      "N","O","P","Q","R","S","T","U","V","W","X","Y","Z">>

LowerChar(c) ==
    IF \E i \in 1..26 : UpperCaseLetters[i] = c
    THEN LowerCaseLetters[CHOOSE i \in 1..26 : UpperCaseLetters[i] = c]
    ELSE c

\* str.lower()
Lower(s) == [i \in 1..Len(s) |-> LowerChar(s[i])]

K_none == <<"n","o","n","e">>
K_fade == <<"f","a","d","e">>
K_fade_black == <<"f","a","d","e","_","b","l","a","c","k">>
K_wipe_left == <<"w","i","p","e","_","l","e","f","t">>
K_wipe_right == <<"w","i","p","e","_","r","i","g","h","t">>
K_smooth_left == <<"s","m","o","o","t","h","_","l","e","f","t">>
K_smooth_right == <<"s","m","o","o","t","h","_","r","i","g","h","t">>
K_whip_pan == <<"w","h","i","p","_","p","a","n">>
K_circle_open == <<"c","i","r","c","l","e","_","o","p","e","n">>
K_circle_close == <<"c","i","r","c","l","e","_","c","l","o","s","e">>
K_pixelize == <<"p","i","x","e","l","i","z","e">>

\* The catalog: key -> xfade transition name ("<None>" is Python's None)
SUPPORTED_TRANSITION_TYPES ==
    (K_none :> "<None>") @@ (K_fade :> "fade") @@ (K_fade_black :> "fadeblack")
    @@ (K_wipe_left :> "wipeleft") @@ (K_wipe_right :> "wiperight")
    @@ (K_smooth_left :> "smoothleft") @@ (K_smooth_right :> "smoothright")
    @@ (K_whip_pan :> "slideleft") @@ (K_circle_open :> "circleopen")
    @@ (K_circle_close :> "circleclose") @@ (K_pixelize :> "pixelize")

DEFAULT_TRANSITION_TYPE == K_none

(***************************************************************************)
(* Results of a call: a returned value or a raised error.                  *)
(***************************************************************************)
Ok(v) == [ok |-> TRUE, val |-> v, err |-> "none"]
Raise(e) == [ok |-> FALSE, val |-> <<>>, err |-> e]

\* _normalize_transition_type
_normalize_transition_type(requested_type) ==
    LET transition_key ==
            Lower(IF requested_type = None \/ requested_type = <<>>
                  THEN DEFAULT_TRANSITION_TYPE ELSE requested_type)
    IN  IF transition_key \notin DOMAIN SUPPORTED_TRANSITION_TYPES
        THEN Raise("UnsupportedTransition")
        ELSE Ok(transition_key)

\* A Python float: a finite number (hundredths of a second, or whole dB) or
\* nan.  Every ordering comparison with nan is false.
Num(x) == [nan |-> FALSE, v |-> x]
NaN == [nan |-> TRUE, v |-> 0]
Less(a, b) == ~a.nan /\ ~b.nan /\ a.v < b.v

\* _normalize_transition_duration; duration is the float that float(duration)
\* yields
_normalize_transition_duration(duration) ==
    LET value == duration
    IN  IF Less(value, Num(MIN_TRANSITION_DURATION)) THEN Num(MIN_TRANSITION_DURATION)
        ELSE IF Less(Num(MAX_TRANSITION_DURATION), value) THEN Num(MAX_TRANSITION_DURATION)
        ELSE value

\* _normalize_whip_pan_sfx_gain_db, in dB
DEFAULT_WHIP_PAN_SFX_GAIN_DB == -6
MIN_WHIP_PAN_SFX_GAIN_DB == -60
MAX_WHIP_PAN_SFX_GAIN_DB == 6
_normalize_whip_pan_sfx_gain_db(gain_db) ==
    LET value == gain_db
    IN  IF Less(value, Num(MIN_WHIP_PAN_SFX_GAIN_DB)) THEN Num(MIN_WHIP_PAN_SFX_GAIN_DB)
        ELSE IF Less(Num(MAX_WHIP_PAN_SFX_GAIN_DB), value) THEN Num(MAX_WHIP_PAN_SFX_GAIN_DB)
        ELSE value


\* _normalize_transition_sfx_track_id; an optional integer is
\* [present |-> FALSE, val |-> 0] (None) or [present |-> TRUE, val |-> n]
MIN_TRANSITION_SFX_TRACK_ID == 0
MAX_TRANSITION_SFX_TRACK_ID == 15
NoTrack == [present |-> FALSE, val |-> 0]
Track(n) == [present |-> TRUE, val |-> n]

_normalize_transition_sfx_track_id(track_id) ==
    IF ~track_id.present THEN NoTrack
    ELSE IF track_id.val < MIN_TRANSITION_SFX_TRACK_ID
         THEN Track(MIN_TRANSITION_SFX_TRACK_ID)
    ELSE IF track_id.val > MAX_TRANSITION_SFX_TRACK_ID
         THEN Track(MAX_TRANSITION_SFX_TRACK_ID)
    ELSE track_id

(***************************************************************************)
(* The transition planner.  An optional list is [present |-> FALSE,        *)
(* items |-> <<>>] (None) or [present |-> TRUE, items |-> <<...>>].        *)
(***************************************************************************)
NoSequence == [present |-> FALSE, items |-> <<>>]
Sequence(items) == [present |-> TRUE, items |-> items]

\* mutant: an entry that resolves to "none" is kept in the plan
RECURSIVE PlanLoopKeepsNone(_, _, _)
PlanLoopKeepsNone(items, index, normalized_plan) ==
    IF index > Len(items) THEN Ok(normalized_plan)
    ELSE LET key == _normalize_transition_type(items[index])
         IN  IF ~key.ok THEN key
             ELSE PlanLoopKeepsNone(items, index + 1, Append(normalized_plan, key.val))

\* the for loop of _build_transition_plan, from entry `index` on
RECURSIVE PlanLoop(_, _, _)
PlanLoop(items, index, normalized_plan) ==
    IF index > Len(items) THEN Ok(normalized_plan)
    ELSE LET key == _normalize_transition_type(items[index])
         IN  IF ~key.ok THEN key
             ELSE IF key.val = K_none THEN Raise("InvalidSequenceEntry")
             ELSE PlanLoop(items, index + 1, Append(normalized_plan, key.val))

\* mutant: the default plan has one entry per clip
BuildPlanPerClip(clip_count, default_transition, transition_sequence) ==
    IF clip_count <= 1 THEN Ok(<<>>)
    ELSE IF ~transition_sequence.present \/ transition_sequence.items = <<>>
         THEN Ok([i \in 1..clip_count |-> default_transition])
    ELSE IF Len(transition_sequence.items) # clip_count - 1
         THEN Raise("LengthMismatch")
    ELSE PlanLoop(transition_sequence.items, 1, <<>>)

\* mutant: the clip_count <= 1 early return is missing
BuildPlanNoEarlyReturn(clip_count, default_transition, transition_sequence) ==
    IF ~transition_sequence.present \/ transition_sequence.items = <<>>
    THEN Ok([i \in 1..(clip_count - 1) |-> default_transition])
    ELSE IF Len(transition_sequence.items) # clip_count - 1
         THEN Raise("LengthMismatch")
    ELSE PlanLoop(transition_sequence.items, 1, <<>>)

_build_transition_plan(clip_count, default_transition, transition_sequence) ==
    IF clip_count <= 1 THEN Ok(<<>>)
    ELSE IF ~transition_sequence.present \/ transition_sequence.items = <<>>
         THEN Ok([i \in 1..(clip_count - 1) |-> default_transition])
    ELSE IF Len(transition_sequence.items) # clip_count - 1
         THEN Raise("LengthMismatch")
    ELSE PlanLoop(transition_sequence.items, 1, <<>>)

\* mutant: transitions are applied only if every entry asks for one and there
\* are at least two
ShouldApplyForLongPlans(transition_plan) ==
    /\ Len(transition_plan) >= 2
    /\ \A i \in 1..Len(transition_plan) : transition_plan[i] # K_none

\* mutant: every plan with an entry takes the transition path
ShouldApplyWithAnyEntry(transition_plan) == transition_plan # <<>>

_should_apply_transitions(transition_plan) ==
    \E i \in 1..Len(transition_plan) : transition_plan[i] # K_none

(***************************************************************************)
(* The timing resolver.                                                    *)
(***************************************************************************)
\* the resolver without the floor of line 562: the cap is max_allowed - 0.05
EffectiveNoFloor(requested, previous_tail, next_clip) ==
    LET max_allowed == Min(previous_tail, next_clip)
        safe_cap == max_allowed - SAFETY_MARGIN
        effective == Min(requested, safe_cap)
    IN  IF effective < MIN_TRANSITION_DURATION
        THEN Raise("TransitionTooLong")
        ELSE Ok(effective)

\* mutant: a requested duration above the cap is rejected, not truncated
EffectiveRejectsLong(requested, previous_tail, next_clip) ==
    LET max_allowed == Min(previous_tail, next_clip)
        safe_cap == Max(max_allowed - SAFETY_MARGIN, MIN_TRANSITION_DURATION)
    IN  IF requested > safe_cap \/ requested < MIN_TRANSITION_DURATION
        THEN Raise("TransitionTooLong")
        ELSE Ok(requested)

\* mutant: the cap is the shorter clip itself, without the 0.05 s margin
EffectiveWithoutMargin(requested, previous_tail, next_clip) ==
    LET max_allowed == Min(previous_tail, next_clip)
        safe_cap == Max(max_allowed, MIN_TRANSITION_DURATION)
        effective == Min(requested, safe_cap)
    IN  IF effective < MIN_TRANSITION_DURATION
        THEN Raise("TransitionTooLong")
        ELSE Ok(effective)

_effective_transition_duration(requested, previous_tail, next_clip) ==
    LET max_allowed == Min(previous_tail, next_clip)
        safe_cap == Max(max_allowed - SAFETY_MARGIN, MIN_TRANSITION_DURATION)
        effective == Min(requested, safe_cap)
    IN  IF effective < MIN_TRANSITION_DURATION
        THEN Raise("TransitionTooLong")
        ELSE Ok(effective)


(***************************************************************************)
(* Filter graphs and engine commands.  A compiled graph is a sequence of   *)
(* statements [ins]f[outs]; a label is an input pad [i:v] / [i:a], a link  *)
(* [sN], or, after the merge, [sfxN] or [sfx].                             *)
(***************************************************************************)
InV(i) == [k |-> "v", n |-> i]
InA(i) == [k |-> "a", n |-> i]
Link(n) == [k |-> "s", n |-> n]
SfxN(n) == [k |-> "sfx", n |-> n]
SfxFinal == [k |-> "sfx_final", n |-> 0]

\* one filter with its duration argument d and its offset / delay argument at
Stmt(ins, f, d, at, outs) == [ins |-> ins, f |-> f, d |-> d, at |-> at, outs |-> outs]

\* ffmpeg.input(...) sources, and their audio pads before compile() has
\* numbered the inputs
SilenceSource == <<"anullsrc", 0>>
WhooshSource == <<"whoosh", 0>>
SilencePad == [k |-> "silence", n |-> 0]
WhooshPad == [k |-> "whoosh", n |-> 0]

\* _build_silence_audio(duration) on input pad src, links numbered from k
SilenceChain(src, duration, k) ==
    [stmts |-> <<Stmt(<<src>>, "atrim", duration, 0, <<Link(k)>>),
                 Stmt(<<Link(k)>>, "asetpts", 0, 0, <<Link(k + 1)>>)>>,
     last |-> Link(k + 1), k |-> k + 2]

\* mutant: the whoosh is built whether or not the asset exists
BuildSoundEffectAlways(exists, src, offset, duration, gain_db, k) ==
    LET trim == <<Stmt(<<src>>, "atrim", duration, 0, <<Link(k)>>),
                  Stmt(<<Link(k)>>, "asetpts", 0, 0, <<Link(k + 1)>>)>>
    IN  [present |-> TRUE, stmts |-> trim, last |-> Link(k + 1), k |-> k + 2]

\* _build_whip_pan_sound_effect on input pad src, links numbered from k; None
\* is present |-> FALSE
_build_whip_pan_sound_effect(exists, src, offset, duration, gain_db, k) ==
    IF ~exists
    THEN [present |-> FALSE, stmts |-> <<>>, last |-> src, k |-> k]
    ELSE LET trim == <<Stmt(<<src>>, "atrim", duration, 0, <<Link(k)>>),
                       Stmt(<<Link(k)>>, "asetpts", 0, 0, <<Link(k + 1)>>)>>
             k1 == k + 2
             vol == IF gain_db # 0
                    THEN <<Stmt(<<Link(k1 - 1)>>, "volume", 0, 0, <<Link(k1)>>)>>
                    ELSE <<>>
             k2 == k1 + Len(vol)
             delay_ms == Max(offset * 10, 0)
             del == IF delay_ms > 0
                    THEN <<Stmt(<<Link(k2 - 1)>>, "adelay", 0, delay_ms, <<Link(k2)>>)>>
                    ELSE <<>>
             k3 == k2 + Len(del)
         IN  [present |-> TRUE, stmts |-> trim \o vol \o del,
              last |-> Link(k3 - 1), k |-> k3]

\* lines 223-228 and 250-256: the video filters of one boundary;
\* _apply_whip_pan_transition is xfade, split, gblur, blend
VideoStep(key, cur, nxt, effective_duration, offset, k) ==
    LET xfade == Stmt(<<cur, nxt>>, "xfade", effective_duration, offset, <<Link(k)>>)
    IN  IF key = K_whip_pan
        THEN [stmts |-> <<xfade,
                          Stmt(<<Link(k)>>, "split", 0, 0, <<Link(k + 1), Link(k + 2)>>),
                          Stmt(<<Link(k + 2)>>, "gblur", 0, 0, <<Link(k + 3)>>),
                          Stmt(<<Link(k + 1), Link(k + 3)>>, "blend",
                               effective_duration, offset, <<Link(k + 4)>>)>>,
              last |-> Link(k + 4), k |-> k + 5]
        ELSE [stmts |-> <<xfade>>, last |-> Link(k), k |-> k + 1]

\* line 189: the audio of the c-th clip (c from 1): its own audio pad, or
\* silence of its length read from the anullsrc input
AudioSource(c, stream, k) ==
    IF stream.has_audio
    THEN [stmts |-> <<>>, last |-> InA(c - 1), k |-> k]
    ELSE SilenceChain(SilencePad, stream.duration, k)

\* mutant: the whoosh is mixed into the main audio also when a track id is given
AudioStepMixesAlways(key, cur, nxt, effective_duration, offset, has_track, exists, gain_db, k) ==
    LET fade == Stmt(<<cur, nxt>>, "acrossfade", effective_duration, 0, <<Link(k)>>)
        effect == _build_whip_pan_sound_effect(exists, WhooshPad, offset,
                                               effective_duration, gain_db, k + 1)
    IN  IF key = K_whip_pan /\ effect.present
        THEN [stmts |-> <<fade>> \o effect.stmts
                            \o <<Stmt(<<Link(k), effect.last>>, "amix", 0, 0,
                                      <<Link(effect.k)>>)>>,
              last |-> Link(effect.k), k |-> effect.k + 1]
        ELSE [stmts |-> <<fade>>, last |-> Link(k), k |-> k + 1]

\* lines 229-248 and 257-261: the audio filters of one boundary; without a
\* dedicated track _apply_whip_pan_audio mixes the whoosh into the cross-fade
AudioStep(key, cur, nxt, effective_duration, offset, has_track, exists, gain_db, k) ==
    LET fade == Stmt(<<cur, nxt>>, "acrossfade", effective_duration, 0, <<Link(k)>>)
        effect == _build_whip_pan_sound_effect(exists, WhooshPad, offset,
                                               effective_duration, gain_db, k + 1)
    IN  IF key = K_whip_pan /\ ~has_track /\ effect.present
        THEN [stmts |-> <<fade>> \o effect.stmts
                            \o <<Stmt(<<Link(k), effect.last>>, "amix", 0, 0,
                                      <<Link(effect.k)>>)>>,
              last |-> Link(effect.k), k |-> effect.k + 1]
        ELSE [stmts |-> <<fade>>, last |-> Link(k), k |-> k + 1]

Minimum(set) == CHOOSE x \in set : \A y \in set : x <= y

\* an engine command: the inputs in order, the filter graph if there is a
\* -filter_complex argument, the mapped labels and the output path
Command(inputs, graph, maps, output) ==
    [inputs |-> inputs, filter_complex |-> graph, maps |-> maps, output |-> output]

\* compile() numbers the links of a stream after those of the streams before
\* it, and the inputs in the order the graph reaches them
ResolveLabel(label, shift, silence_input, whoosh_input) ==
    IF label.k = "s" THEN Link(label.n + shift)
    ELSE IF label.k = "silence" THEN InA(silence_input)
    ELSE IF label.k = "whoosh" THEN InA(whoosh_input)
    ELSE label
ResolveLabels(labels, shift, silence_input, whoosh_input) ==
    [i \in DOMAIN labels |-> ResolveLabel(labels[i], shift, silence_input, whoosh_input)]
ResolveStmt(st, shift, silence_input, whoosh_input) ==
    [st EXCEPT !.ins = ResolveLabels(@, shift, silence_input, whoosh_input),
               !.outs = ResolveLabels(@, shift, silence_input, whoosh_input)]
Resolve(stmts, shift, silence_input, whoosh_input) ==
    [i \in DOMAIN stmts |-> ResolveStmt(stmts[i], shift, silence_input, whoosh_input)]

\* lines 278-284 / 373: ffmpeg.output(current_video, current_audio, ...)
\* compiled: the video filters, then the audio filters.  The inputs are the
\* clips, then anullsrc and the whoosh by first use in the audio chain.
CompileMain(files, streams, bnds, video, audio, has_track, exists, output) ==
    LET n == Len(streams)
        silent == {c \in 1..n : ~streams[c].has_audio}
        mixed == {i \in 1..Len(bnds) :
                     bnds[i].key = K_whip_pan /\ ~has_track /\ exists}
        silence_first == silent # {}
                           /\ (mixed = {} \/ Minimum(silent) - 1 <= Minimum(mixed))
        silence_input == IF silence_first \/ mixed = {} THEN n ELSE n + 1
        whoosh_input == IF silence_first THEN n + 1 ELSE n
        extra == IF silent = {} /\ mixed = {} THEN <<>>
                 ELSE IF mixed = {} THEN <<SilenceSource>>
                 ELSE IF silent = {} THEN <<WhooshSource>>
                 ELSE IF silence_first THEN <<SilenceSource, WhooshSource>>
                 ELSE <<WhooshSource, SilenceSource>>
    IN  Command(files \o extra,
                <<video.stmts \o Resolve(audio.stmts, video.k, silence_input, whoosh_input)>>,
                <<video.last,
                  ResolveLabel(audio.last, video.k, silence_input, whoosh_input)>>,
                output)

\* the number of filters of the events before the i-th
FiltersBefore(events, i) ==
    Cardinality(UNION {{<<j, u>> : u \in 1..events[j].stream.k} : j \in 1..(i - 1)})

\* _build_sfx_track: silence of the whole length (anullsrc is input 0), the
\* whoosh (input 1) of every event mixed over it
_build_sfx_track(events, total_duration) ==
    LET base == SilenceChain(InA(0), total_duration, 0)
        count == FiltersBefore(events, Len(events) + 1)
        chains == [p \in 1..count |->
                      LET j == CHOOSE j \in 1..Len(events) :
                                   /\ FiltersBefore(events, j) < p
                                   /\ p <= FiltersBefore(events, j + 1)
                          before == FiltersBefore(events, j)
                      IN  ResolveStmt(events[j].stream.stmts[p - before],
                                      base.k + before, 0, 1)]
        lasts == [j \in 1..Len(events) |->
                     Link(base.k + FiltersBefore(events, j + 1) - 1)]
    IN  IF events = <<>>
        THEN base
        ELSE [stmts |-> base.stmts \o chains
                            \o <<Stmt(<<base.last>> \o lasts, "amix", 0, 0,
                                      <<Link(base.k + count)>>)>>,
              last |-> Link(base.k + count), k |-> base.k + count + 1]

NullPath == <<"/dev/null", 0>>

\* lines 295-296: ffmpeg.output(sfx_track, "/dev/null", format="null") compiled
CompileSfx(events, total_duration) ==
    LET track == _build_sfx_track(events, total_duration)
    IN  Command(IF events = <<>> THEN <<SilenceSource>>
                ELSE <<SilenceSource, WhooshSource>>,
                <<track.stmts>>, <<track.last>>, NullPath)

\* re.findall(r'\[s\d+\]', filter): the links of a graph in textual order
RECURSIVE GraphLabels(_)
GraphLabels(graph) ==
    IF graph = <<>> THEN <<>>
    ELSE Head(graph).ins \o Head(graph).outs \o GraphLabels(Tail(graph))

IsLink(label) == label.k = "s"
LinkLabels(graph) == SelectSeq(GraphLabels(graph), IsLink)

\* mutant: the labels of the SFX graph are left as compiled
RenameNothing(label) == label

\* line 313: every [sN] of the SFX graph becomes [sfxN]
RenameLabel(label) == IF label.k = "s" THEN SfxN(label.n) ELSE label
RenameLabels(labels) == [i \in DOMAIN labels |-> RenameLabel(labels[i])]
RenameSfx(graph) ==
    [i \in DOMAIN graph |->
        [graph[i] EXCEPT !.ins = RenameLabels(@), !.outs = RenameLabels(@)]]

\* line 319: re.search(r'\[sfx\d+\]$', ...): the text of the graph ends with
\* the last output label of its last statement
EndsWithSfxLabel(graph) ==
    /\ graph # <<>>
    /\ graph[Len(graph)].outs # <<>>
    /\ graph[Len(graph)].outs[Len(graph[Len(graph)].outs)].k = "sfx"

\* lines 320-326: the terminal label becomes [sfx]; without one, [sfx] is
\* appended to the text
WithSfxTerminal(graph) ==
    IF EndsWithSfxLabel(graph)
    THEN [graph EXCEPT ![Len(graph)].outs[Len(graph[Len(graph)].outs)] = SfxFinal]
    ELSE IF graph = <<>>
    THEN <<Stmt(<<>>, "", 0, 0, <<SfxFinal>>)>>
    ELSE [graph EXCEPT ![Len(graph)].outs = Append(@, SfxFinal)]

\* lines 345-352: the labels mapped as video and main audio
MainMaps(main_filter) ==
    LET main_labels == LinkLabels(main_filter)
        count == Len(main_labels)
    IN  IF count >= 2
        THEN <<main_labels[count - 1], main_labels[count]>>
        ELSE <<Link(0), IF count >= 1 THEN Link(1) ELSE Link(0)>>

\* mutant: the merged command maps video and main audio only
MergeCommandWithoutSfxMap(cmd, sfx_cmd) ==
    IF cmd.filter_complex = <<>> \/ sfx_cmd.filter_complex = <<>>
    THEN [merged |-> FALSE, terminal_found |-> FALSE, command |-> cmd]
    ELSE LET main_filter == cmd.filter_complex[1]
             sfx_filter_renamed == RenameSfx(sfx_cmd.filter_complex[1])
             combined_filter == main_filter \o WithSfxTerminal(sfx_filter_renamed)
         IN  [merged |-> TRUE,
              terminal_found |-> EndsWithSfxLabel(sfx_filter_renamed),
              command |-> Command(cmd.inputs, <<combined_filter>>,
                                  MainMaps(main_filter), cmd.output)]

\* lines 286-363: the multi-track command built from the two compiled
\* commands, or no command when a -filter_complex argument is missing
MergeCommand(cmd, sfx_cmd) ==
    IF cmd.filter_complex = <<>> \/ sfx_cmd.filter_complex = <<>>
    THEN [merged |-> FALSE, terminal_found |-> FALSE, command |-> cmd]
    ELSE LET main_filter == cmd.filter_complex[1]
             sfx_filter_renamed == RenameSfx(sfx_cmd.filter_complex[1])
             combined_filter == main_filter \o WithSfxTerminal(sfx_filter_renamed)
         IN  [merged |-> TRUE,
              terminal_found |-> EndsWithSfxLabel(sfx_filter_renamed),
              command |-> Command(cmd.inputs, <<combined_filter>>,
                                  MainMaps(main_filter) \o <<SfxFinal>>, cmd.output)]

\* mutant: a dedicated track is built whenever a track id was given
UseSfxTrackAlways(track_id, events) == track_id.present

\* line 272
UseSfxTrack(track_id, events) == track_id.present /\ events # <<>>

\* mutant: after a failed multi-track command the plain command is run
ExecutionsWithFallback(use_track, merge, cmd, outcome) ==
    IF use_track /\ merge.merged
    THEN IF outcome = "failed"
         THEN <<[kind |-> "three_map", command |-> merge.command],
                [kind |-> "plain", command |-> cmd]>>
         ELSE <<[kind |-> "three_map", command |-> merge.command]>>
    ELSE <<[kind |-> "plain", command |-> cmd]>>

\* lines 366-378: the commands handed to the engine: the multi-track command
\* (subprocess.run, then raise or return) or the plain one (stream.run)
Executions(use_track, merge, cmd, outcome) ==
    IF use_track /\ merge.merged
    THEN <<[kind |-> "three_map", command |-> merge.command]>>
    ELSE <<[kind |-> "plain", command |-> cmd]>>

\* what the engine reads from one input: a clip lasts as long as probed, the
\* whoosh asset WHOOSH_LENGTH, anullsrc has no end
WHOOSH_LENGTH == 100
Unbounded == 1000000
InputLength(source, streams) ==
    IF source = SilenceSource THEN Unbounded
    ELSE IF source = WhooshSource THEN WHOOSH_LENGTH
    ELSE streams[source[2]].duration

\* the statements of the spliced SFX sub-graph in a combined graph
IsSfxStmt(st) == \E i \in DOMAIN st.outs : st.outs[i].k \in {"sfx", "sfx_final"}
SfxPart(graph) == SelectSeq(graph, IsSfxStmt)

\* the input a pad [k:a] or [k:v] of a command denotes
InputOf(command, label) == command.inputs[label.n + 1]

\* lines 532-555 as the engine runs them: the bus is input [0:a] cut by atrim
\* to its duration argument, and amix(duration="first") lasts as long as the bus
SfxTrackLength(command, streams) ==
    LET bus == SfxPart(command.filter_complex[1])[1]
    IN  Min(InputLength(InputOf(command, bus.ins[1]), streams), bus.d)

(***************************************************************************)
(* The job: process_video_concatenate, one step per code segment between   *)
(* two interactions with the outside (asset fetcher, probe, engine).       *)
(***************************************************************************)
VARIABLES
    request,                 \* the arguments of process_video_concatenate
    whoosh_exists,           \* os.path.exists(WHIP_PAN_SFX_PATH)
    probe_pool,              \* what a probe of a fetched clip may report
    pc,                      \* position of the job in the code
    validated_transition,
    normalized_duration,
    normalized_whip_pan_gain,
    normalized_sfx_track_id,
    input_files,             \* local paths returned by download_file so far
    disk,                    \* files present in LOCAL_STORAGE_PATH
    transition_plan,
    media_streams,           \* probed clips: [duration, has_audio]
    cumulative_duration,
    trailing_clip_duration,
    current_video,           \* the video stream built so far: [stmts, last, k]
    current_audio,           \* the main audio stream built so far
    sfx_streams,             \* collected SFX events: [offset, duration, stream]
    boundaries,              \* history: what the fold did at each boundary
    started,                 \* external processes started: [probes, engine_runs]
    mapped_streams,          \* streams mapped by the engine command that ran
    error,                   \* the exception raised, "none" if none
    returned,                \* the path returned, <<>> if none
    plan_call,               \* history: <<result>> of _build_transition_plan once called
    engine_log,              \* history: the engine commands run, with their outcome
    harness                  \* a direct call of one function, outside a job

jobVars == <<request, whoosh_exists, probe_pool, pc, validated_transition, normalized_duration,
             normalized_whip_pan_gain, normalized_sfx_track_id, input_files, disk, transition_plan,
             media_streams, cumulative_duration, trailing_clip_duration,
             current_video, current_audio, sfx_streams, boundaries, started,
             mapped_streams, error, returned, plan_call, engine_log>>
vars == <<jobVars, harness>>

\* os.path.join(LOCAL_STORAGE_PATH, f"{job_id}.mp4")
OutputPath == <<"output", 0>>
\* the path download_file returns for the i-th url
InputPath(i) == <<"input", i>>
\* the NamedTemporaryFile of _concatenate_with_concat_demuxer
ConcatListPath == <<"concat_list", 0>>

\* no stream built yet
NoStream == [stmts |-> <<>>, last |-> InV(0), k |-> 0]

NoHarness == [fn |-> "none", args |-> <<>>, ret |-> Ok(<<>>), done |-> FALSE]

(***************************************************************************)
(* Inputs.                                                                 *)
(***************************************************************************)
N_bogus == <<"b","o","g","u","s">>
N_WHIP_PAN == <<"W","H","I","P","_","P","A","N">>
N_Fade_Black == <<"F","a","d","e","_","B","l","a","c","k">>
N_fade_space == <<"f","a","d","e"," ">>

RECURSIVE SeqsUpTo(_, _)
SeqsUpTo(S, n) ==
    IF n = 0 THEN {<<>>}
    ELSE LET shorter == SeqsUpTo(S, n - 1)
         IN  shorter \cup {Append(q, x) : q \in {r \in shorter : Len(r) = n - 1}, x \in S}

\* what a probe may report: clips of 0.05, 0.1, 0.25, 1.0 and 2.0 s with an
\* audio stream, and a 2.0 s clip without one
ProbeDurations == {5, 10, 25, 100, 200}
ProbeResults ==
    [duration : ProbeDurations, has_audio : {TRUE}]
        \cup {[duration |-> 200, has_audio |-> FALSE]}
\* the same for the jobs that exercise validation and planning
PlanProbeResults ==
    {[duration |-> 200, has_audio |-> TRUE], [duration |-> 100, has_audio |-> FALSE]}

JobAt(req, asset, pool, at) ==
    /\ request = req
    /\ whoosh_exists = asset
    /\ probe_pool = pool
    /\ pc = at
    /\ validated_transition = <<>>
    /\ normalized_duration = 0
    /\ normalized_whip_pan_gain = 0
    /\ normalized_sfx_track_id = NoTrack
    /\ input_files = <<>>
    /\ disk = {}
    /\ transition_plan = <<>>
    /\ media_streams = <<>>
    /\ cumulative_duration = 0
    /\ trailing_clip_duration = 0
    /\ current_video = NoStream
    /\ current_audio = NoStream
    /\ sfx_streams = <<>>
    /\ boundaries = <<>>
    /\ started = [probes |-> 0, engine_runs |-> 0]
    /\ mapped_streams = 0
    /\ error = "none"
    /\ returned = <<>>
    /\ plan_call = <<>>
    /\ engine_log = <<>>

JobStart(req, asset, pool) == JobAt(req, asset, pool, "validate")

Requests(types, durations, sequences, gains, tracks, counts) ==
    [transition_type : types, transition_duration : durations,
     transition_sequence : sequences, whip_pan_sfx_gain_db : gains,
     transition_sfx_track_id : tracks, clip_count : counts]

\* requests that exercise validation and planning
PlanRequests ==
    Requests({None, <<>>, K_none, K_fade, N_WHIP_PAN, N_Fade_Black, N_bogus, N_fade_space},
             {60},
             {NoSequence} \cup {Sequence(q) : q \in SeqsUpTo({K_fade, N_WHIP_PAN, K_none, N_bogus}, MaxClips)},
             {DEFAULT_WHIP_PAN_SFX_GAIN_DB},
             {NoTrack},
             0..MaxClips)

\* requests that exercise the timing of the fold
FoldRequests ==
    Requests({K_none, K_fade, K_whip_pan},
             {10, 20, 50, 500, 600},
             {NoSequence, Sequence(<<N_bogus>>)},
             {DEFAULT_WHIP_PAN_SFX_GAIN_DB},
             {NoTrack},
             0..MaxFoldClips)

\* requests that exercise the sound effects and the dedicated SFX track
SfxProbeResults ==
    {[duration |-> 200, has_audio |-> TRUE], [duration |-> 100, has_audio |-> TRUE],
     [duration |-> 200, has_audio |-> FALSE]}
SfxRequests ==
    Requests({K_fade, K_whip_pan},
             {50},
             {NoSequence, Sequence(<<K_whip_pan, K_fade>>)},
             {DEFAULT_WHIP_PAN_SFX_GAIN_DB, 0},
             {NoTrack, Track(0)},
             0..MaxSfxClips)

Init ==
    /\ \E req \in PlanRequests, asset \in BOOLEAN : JobStart(req, asset, PlanProbeResults)
    /\ harness = NoHarness

FoldInit ==
    /\ \E req \in FoldRequests, asset \in BOOLEAN : JobStart(req, asset, ProbeResults)
    /\ harness = NoHarness

SfxInit ==
    /\ \E req \in SfxRequests, asset \in BOOLEAN : JobStart(req, asset, SfxProbeResults)
    /\ harness = NoHarness


(***************************************************************************)
(* Steps of the job.                                                       *)
(***************************************************************************)
Range(q) == {q[i] : i \in 1..Len(q)}

\* an exception leaves process_video_concatenate (lines 114-116: print, raise)
Fail(e) ==
    /\ pc' = "raised"
    /\ error' = e

\* lines 74-81
Validate ==
    /\ pc = "validate"
    /\ LET t == _normalize_transition_type(request.transition_type)
       IN  IF t.ok
           THEN /\ validated_transition' = t.val
                /\ normalized_duration' =
                       _normalize_transition_duration(Num(request.transition_duration)).v
                /\ normalized_whip_pan_gain' =
                       _normalize_whip_pan_sfx_gain_db(Num(request.whip_pan_sfx_gain_db)).v
                /\ normalized_sfx_track_id' =
                       _normalize_transition_sfx_track_id(request.transition_sfx_track_id)
                /\ pc' = "download"
                /\ UNCHANGED error
           ELSE /\ Fail(t.err)
                /\ UNCHANGED <<validated_transition, normalized_duration,
                               normalized_whip_pan_gain, normalized_sfx_track_id>>
    /\ UNCHANGED <<request, whoosh_exists, probe_pool, input_files, disk, transition_plan,
                   media_streams, cumulative_duration, trailing_clip_duration,
                   current_video, current_audio, sfx_streams, boundaries, started, mapped_streams, returned, plan_call, engine_log,
                   harness>>

\* lines 84-87, one iteration: download_file returns a local path or raises
Download ==
    /\ pc = "download"
    /\ Len(input_files) < request.clip_count
    /\ \/ /\ input_files' = Append(input_files, InputPath(Len(input_files) + 1))
          /\ disk' = disk \cup {InputPath(Len(input_files) + 1)}
          /\ UNCHANGED <<pc, error>>
       \/ /\ Fail("DownloadFailed")
          /\ UNCHANGED <<input_files, disk>>
    /\ UNCHANGED <<request, whoosh_exists, probe_pool, validated_transition, normalized_duration,
                   normalized_whip_pan_gain, normalized_sfx_track_id, transition_plan, media_streams,
                   cumulative_duration, trailing_clip_duration, current_video, current_audio, sfx_streams,
                   boundaries, started, mapped_streams, returned, plan_call, engine_log, harness>>

\* lines 89-105: the plan is built and the path is chosen
Plan ==
    /\ pc = "download"
    /\ Len(input_files) = request.clip_count
    /\ LET p == _build_transition_plan(Len(input_files), validated_transition,
                                       request.transition_sequence)
       IN  /\ plan_call' = <<p>>
           /\ IF p.ok
              THEN /\ transition_plan' = p.val
                   /\ pc' = IF _should_apply_transitions(p.val) THEN "probe" ELSE "concat"
                   /\ UNCHANGED error
              ELSE /\ Fail(p.err)
                   /\ UNCHANGED transition_plan
    /\ UNCHANGED <<request, whoosh_exists, probe_pool, validated_transition, normalized_duration,
                   normalized_whip_pan_gain, normalized_sfx_track_id, input_files, disk, media_streams,
                   cumulative_duration, trailing_clip_duration, current_video, current_audio, sfx_streams,
                   boundaries, started, mapped_streams, returned, engine_log, harness>>

\* lines 187-197, one iteration: _probe_media runs the probe on one input
Probe ==
    /\ pc = "probe"
    /\ Len(media_streams) < Len(input_files)
    /\ started' = [started EXCEPT !.probes = @ + 1]
    /\ \/ /\ \E probe \in probe_pool :
                media_streams' = Append(media_streams, probe)
          /\ UNCHANGED <<pc, error>>
       \/ /\ Fail("ProbeFailure")
          /\ UNCHANGED media_streams
    /\ UNCHANGED <<request, whoosh_exists, probe_pool, validated_transition, normalized_duration,
                   normalized_whip_pan_gain, normalized_sfx_track_id, input_files, disk, transition_plan,
                   cumulative_duration, trailing_clip_duration, current_video, current_audio, sfx_streams,
                   boundaries, mapped_streams, returned, plan_call, engine_log, harness>>

\* lines 199-206
FoldStart ==
    /\ pc = "probe"
    /\ Len(media_streams) = Len(input_files)
    /\ cumulative_duration' = media_streams[1].duration
    /\ trailing_clip_duration' = media_streams[1].duration
    /\ current_video' = [stmts |-> <<>>, last |-> InV(0), k |-> 0]
    /\ current_audio' = AudioSource(1, media_streams[1], 0)
    /\ sfx_streams' = <<>>
    /\ pc' = "fold"
    /\ UNCHANGED <<request, whoosh_exists, probe_pool, validated_transition, normalized_duration,
                   normalized_whip_pan_gain, normalized_sfx_track_id, input_files, disk, transition_plan,
                   media_streams, boundaries, started, mapped_streams, error,
                   returned, plan_call, engine_log, harness>>

\* line 216
Offset(cumulative, effective_duration) == Max(cumulative - effective_duration, 0)

\* mutant: the composite grows by the whole next clip
AdvanceWithoutOverlap(cumulative, next_duration, effective_duration) ==
    cumulative + next_duration

\* line 262
Advance(cumulative, next_duration, effective_duration) ==
    cumulative + next_duration - effective_duration

\* lines 208-264, one iteration of the fold (idx = Len(boundaries) + 1)
Boundary ==
    /\ pc = "fold"
    /\ Len(boundaries) + 1 < Len(media_streams)
    /\ LET idx == Len(boundaries) + 1
           next_stream == media_streams[idx + 1]
           transition_key == transition_plan[idx]
           eff == _effective_transition_duration(normalized_duration,
                                                 trailing_clip_duration,
                                                 next_stream.duration)
           offset == Offset(cumulative_duration, eff.val)
           effect == _build_whip_pan_sound_effect(whoosh_exists, WhooshPad, offset,
                                                  eff.val, normalized_whip_pan_gain, 0)
           video == VideoStep(transition_key, current_video.last, InV(idx), eff.val,
                              offset, current_video.k)
           next_audio == AudioSource(idx + 1, next_stream, current_audio.k)
           audio == AudioStep(transition_key, current_audio.last, next_audio.last,
                              eff.val, offset, normalized_sfx_track_id.present,
                              whoosh_exists, normalized_whip_pan_gain, next_audio.k)
           to_track == /\ transition_key = K_whip_pan
                       /\ normalized_sfx_track_id.present
                       /\ effect.present
           to_main == /\ transition_key = K_whip_pan
                      /\ ~normalized_sfx_track_id.present
                      /\ effect.present
       IN  IF ~eff.ok
           THEN /\ Fail(eff.err)
                /\ UNCHANGED <<cumulative_duration, trailing_clip_duration,
                               current_video, current_audio, sfx_streams, boundaries>>
           ELSE IF transition_key # K_whip_pan
                   /\ SUPPORTED_TRANSITION_TYPES[transition_key] = "<None>"
           THEN /\ Fail("UnexpectedNone")
                /\ UNCHANGED <<cumulative_duration, trailing_clip_duration,
                               current_video, current_audio, sfx_streams, boundaries>>
           ELSE /\ current_video' = [stmts |-> current_video.stmts \o video.stmts,
                                     last |-> video.last, k |-> video.k]
                /\ current_audio' = [stmts |-> current_audio.stmts \o next_audio.stmts
                                                  \o audio.stmts,
                                     last |-> audio.last, k |-> audio.k]
                /\ sfx_streams' = IF to_track
                                  THEN Append(sfx_streams,
                                              [offset |-> offset, duration |-> eff.val,
                                               stream |-> effect])
                                  ELSE sfx_streams
                /\ boundaries' = Append(boundaries,
                       [key |-> transition_key,
                        requested |-> normalized_duration,
                        effective_duration |-> eff.val,
                        offset |-> offset,
                        cumulative_before |-> cumulative_duration,
                        trailing_before |-> trailing_clip_duration,
                        next_duration |-> next_stream.duration,
                        sfx |-> IF to_track THEN "track"
                                ELSE IF to_main THEN "main" ELSE "none"])
                /\ cumulative_duration' =
                       Advance(cumulative_duration, next_stream.duration, eff.val)
                /\ trailing_clip_duration' = next_stream.duration
                /\ UNCHANGED <<pc, error>>
    /\ UNCHANGED <<request, whoosh_exists, probe_pool, validated_transition, normalized_duration,
                   normalized_whip_pan_gain, normalized_sfx_track_id, input_files, disk, transition_plan,
                   media_streams, started, mapped_streams, returned, plan_call, engine_log, harness>>

\* what the external engine can do with a command
EngineOutcomes == {"ok", "ok_no_file", "failed"}

\* one entry of the engine history
Execution(kind, command, outcome, sfx_bus, list) ==
    [kind |-> kind, command |-> command, outcome |-> outcome, sfx_bus |-> sfx_bus,
     list |-> list]

\* lines 266-378: the command is built (the library may reject the graph) and
\* the engine runs
Output ==
    /\ pc = "fold"
    /\ Len(boundaries) + 1 = Len(media_streams)
    /\ LET use_track == UseSfxTrack(normalized_sfx_track_id, sfx_streams)
           cmd == CompileMain(input_files, media_streams, boundaries, current_video,
                              current_audio, normalized_sfx_track_id.present,
                              whoosh_exists, OutputPath)
           sfx_cmd == CompileSfx(sfx_streams, cumulative_duration)
           merge == IF use_track THEN MergeCommand(cmd, sfx_cmd)
                    ELSE [merged |-> FALSE, terminal_found |-> FALSE, command |-> cmd]
       IN  \/ /\ Fail("GraphCompileFailed")
              /\ UNCHANGED <<disk, started, mapped_streams, engine_log>>
           \/ \E outcome \in EngineOutcomes :
                 LET execs == Executions(use_track, merge, cmd, outcome)
                 IN  /\ started' = [started EXCEPT !.engine_runs = @ + Len(execs)]
                     /\ engine_log' = engine_log \o
                            [i \in DOMAIN execs |->
                                Execution(execs[i].kind, execs[i].command, outcome,
                                          use_track, <<>>)]
                     /\ mapped_streams' = Len(execs[Len(execs)].command.maps)
                     /\ IF outcome = "failed"
                        THEN /\ Fail("EngineExecutionFailed")
                             /\ UNCHANGED disk
                        ELSE /\ disk' = IF outcome = "ok" THEN disk \cup {OutputPath}
                                        ELSE disk
                             /\ pc' = "cleanup"
                             /\ UNCHANGED error
    /\ UNCHANGED <<request, whoosh_exists, probe_pool, validated_transition, normalized_duration,
                   normalized_whip_pan_gain, normalized_sfx_track_id, input_files,
                   transition_plan, media_streams, cumulative_duration,
                   trailing_clip_duration, current_video, current_audio, sfx_streams, boundaries, returned, plan_call,
                   harness>>

\* lines 154-165: the concat list is created and written
ConcatWrite ==
    /\ pc = "concat"
    /\ \/ /\ disk' = disk \cup {ConcatListPath}
          /\ pc' = "concat_run"
          /\ UNCHANGED error
       \/ /\ disk' = disk \ {ConcatListPath}
          /\ Fail("ConcatListWriteFailed")
    /\ UNCHANGED <<request, whoosh_exists, probe_pool, validated_transition, normalized_duration,
                   normalized_whip_pan_gain, normalized_sfx_track_id, input_files, transition_plan,
                   media_streams, cumulative_duration, trailing_clip_duration,
                   current_video, current_audio, sfx_streams, boundaries, started, mapped_streams, returned, plan_call, engine_log,
                   harness>>

\* lines 163-164: one line per input file, in order
ConcatLines(files) == [i \in DOMAIN files |-> files[i]]

\* mutant: the list is removed only after a successful run
ConcatRunKeepsListOnFailure ==
    /\ pc = "concat_run"
    /\ started' = [started EXCEPT !.engine_runs = @ + 1]
    /\ mapped_streams' = 0
    /\ \E outcome \in EngineOutcomes :
          /\ engine_log' = Append(engine_log,
                 Execution("concat", Command(<<ConcatListPath>>, <<>>, <<>>, OutputPath),
                           outcome, FALSE, ConcatLines(input_files)))
          /\ IF outcome = "failed"
             THEN /\ Fail("EngineExecutionFailed")
                  /\ UNCHANGED disk
             ELSE /\ disk' = (IF outcome = "ok" THEN disk \cup {OutputPath} ELSE disk)
                                 \ {ConcatListPath}
                  /\ pc' = "cleanup"
                  /\ UNCHANGED error
    /\ UNCHANGED <<request, whoosh_exists, probe_pool, validated_transition, normalized_duration,
                   normalized_whip_pan_gain, normalized_sfx_track_id, input_files,
                   transition_plan, media_streams, cumulative_duration,
                   trailing_clip_duration, current_video, current_audio, sfx_streams, boundaries, returned, plan_call,
                   harness>>

\* lines 167-174: the engine runs on the list (stream copy, no filter graph);
\* the list is removed (finally)
ConcatRun ==
    /\ pc = "concat_run"
    /\ started' = [started EXCEPT !.engine_runs = @ + 1]
    /\ mapped_streams' = 0
    /\ \E outcome \in EngineOutcomes :
          /\ engine_log' = Append(engine_log,
                 Execution("concat", Command(<<ConcatListPath>>, <<>>, <<>>, OutputPath),
                           outcome, FALSE, ConcatLines(input_files)))
          /\ IF outcome = "failed"
             THEN /\ Fail("EngineExecutionFailed")
                  /\ disk' = disk \ {ConcatListPath}
             ELSE /\ disk' = (IF outcome = "ok" THEN disk \cup {OutputPath} ELSE disk)
                                 \ {ConcatListPath}
                  /\ pc' = "cleanup"
                  /\ UNCHANGED error
    /\ UNCHANGED <<request, whoosh_exists, probe_pool, validated_transition, normalized_duration,
                   normalized_whip_pan_gain, normalized_sfx_track_id, input_files,
                   transition_plan, media_streams, cumulative_duration,
                   trailing_clip_duration, current_video, current_audio, sfx_streams, boundaries, returned, plan_call,
                   harness>>

\* mutant: the output path is returned without the check of lines 110-111
FinishWithoutCheck ==
    /\ pc = "cleanup"
    /\ disk' = disk \ Range(input_files)
    /\ pc' = "returned"
    /\ returned' = OutputPath
    /\ UNCHANGED error
    /\ UNCHANGED <<request, whoosh_exists, probe_pool, validated_transition, normalized_duration,
                   normalized_whip_pan_gain, normalized_sfx_track_id, input_files, transition_plan,
                   media_streams, cumulative_duration, trailing_clip_duration,
                   current_video, current_audio, sfx_streams, boundaries, started, mapped_streams, plan_call, engine_log, harness>>

\* lines 107-113: the inputs are removed, the output is checked and returned
Finish ==
    /\ pc = "cleanup"
    /\ disk' = disk \ Range(input_files)
    /\ IF OutputPath \in disk
       THEN /\ pc' = "returned"
            /\ returned' = OutputPath
            /\ UNCHANGED error
       ELSE /\ Fail("OutputMissing")
            /\ UNCHANGED returned
    /\ UNCHANGED <<request, whoosh_exists, probe_pool, validated_transition, normalized_duration,
                   normalized_whip_pan_gain, normalized_sfx_track_id, input_files, transition_plan,
                   media_streams, cumulative_duration, trailing_clip_duration,
                   current_video, current_audio, sfx_streams, boundaries, started, mapped_streams, plan_call, engine_log, harness>>

Next ==
    \/ Validate
    \/ Download
    \/ Plan
    \/ Probe
    \/ FoldStart
    \/ Boundary
    \/ Output
    \/ ConcatWrite
    \/ ConcatRun
    \/ Finish

Spec == Init /\ [][Next]_vars

FoldSpec == FoldInit /\ [][Next]_vars

SfxSpec == SfxInit /\ [][Next]_vars


(***************************************************************************)
(* Direct calls of _effective_transition_duration, outside a job: the      *)
(* arguments are any requested duration > 0 and any two clip lengths       *)
(* > 0.1 s, not only those a job passes.                                   *)
(***************************************************************************)
MaxTimingRequested == 60
MaxTimingClip == 40

TimingRequested == 1..MaxTimingRequested \cup {MAX_TRANSITION_DURATION, 600}
TimingClips == 11..MaxTimingClip \cup {100, 200}

NoJob ==
    JobAt([transition_type |-> None, transition_duration |-> 0,
           transition_sequence |-> NoSequence,
           whip_pan_sfx_gain_db |-> DEFAULT_WHIP_PAN_SFX_GAIN_DB,
           transition_sfx_track_id |-> NoTrack,
           clip_count |-> 0], FALSE, {}, "idle")

TimingInit ==
    /\ NoJob
    /\ \E requested \in TimingRequested, previous_tail \in TimingClips,
          next_clip \in TimingClips :
          harness = [fn |-> "_effective_transition_duration",
                     args |-> <<requested, previous_tail, next_clip>>,
                     ret |-> Ok(<<>>), done |-> FALSE]

TimingCall ==
    /\ harness.fn = "_effective_transition_duration"
    /\ ~harness.done
    /\ harness' = [harness EXCEPT
                     !.ret = _effective_transition_duration(
                                 harness.args[1], harness.args[2], harness.args[3]),
                     !.done = TRUE]
    /\ UNCHANGED jobVars

TimingNext == TimingCall

TimingSpec == TimingInit /\ [][TimingNext]_vars

\* C1: for previousTail, nextClip > 0.1 and requested > 0, a call of
\* _effective_transition_duration either fails with TransitionTooLong or returns
\* r with MIN_TRANSITION_DURATION <= r <= min(previousTail, nextClip) - 0.05.
C1_EffectiveWithinClips ==
    (harness.fn = "_effective_transition_duration" /\ harness.done
        /\ harness.args[1] > 0 /\ harness.args[2] > 10 /\ harness.args[3] > 10)
    => \/ harness.ret = Raise("TransitionTooLong")
       \/ /\ harness.ret.ok
          /\ harness.ret.val >= MIN_TRANSITION_DURATION
          /\ harness.ret.val <= Min(harness.args[2], harness.args[3]) - SAFETY_MARGIN


(***************************************************************************)
(* The merge of lines 286-378 applied to two compiled commands, outside a  *)
(* job: the commands are those compile() returns for small folds, and the  *)
(* same commands without their -filter_complex argument or without a       *)
(* terminal output label.                                                  *)
(***************************************************************************)
WithAudio == [duration |-> 200, has_audio |-> TRUE]
Silent == [duration |-> 200, has_audio |-> FALSE]

MergeBoundary(key) ==
    [key |-> key, requested |-> 50, effective_duration |-> 50, offset |-> 150,
     cumulative_before |-> 200, trailing_before |-> 200, next_duration |-> 200,
     sfx |-> IF key = K_whip_pan THEN "track" ELSE "none"]

\* the SFX events of one and of two whip_pan boundaries
MergeEvent(offset, gain_db) ==
    [offset |-> offset, duration |-> 50,
     stream |-> _build_whip_pan_sound_effect(TRUE, WhooshPad, offset, 50, gain_db, 0)]
MergeEvents ==
    {<<MergeEvent(150, gain_db)>> : gain_db \in {DEFAULT_WHIP_PAN_SFX_GAIN_DB, 0}}
        \cup {<<MergeEvent(150, gain_db), MergeEvent(300, gain_db)>> :
                 gain_db \in {DEFAULT_WHIP_PAN_SFX_GAIN_DB, 0}}

\* a compiled command whose arguments hold no -filter_complex
WithoutFilter(cmd) == [cmd EXCEPT !.filter_complex = <<>>]
\* a compiled command whose graph text does not end with an output label
WithoutTerminal(cmd) ==
    [cmd EXCEPT !.filter_complex[1][Len(cmd.filter_complex[1])].outs = <<>>]

\* the main command of two clips joined by one boundary, with a track id
MergeMain(second, key) ==
    LET video == VideoStep(key, InV(0), InV(1), 50, 150, 0)
        first_audio == AudioSource(1, WithAudio, 0)
        next_audio == AudioSource(2, second, first_audio.k)
        audio == AudioStep(key, first_audio.last, next_audio.last, 50, 150, TRUE, TRUE,
                           DEFAULT_WHIP_PAN_SFX_GAIN_DB, next_audio.k)
    IN  CompileMain(<<InputPath(1), InputPath(2)>>, <<WithAudio, second>>,
                    <<MergeBoundary(key)>>, video,
                    [stmts |-> next_audio.stmts \o audio.stmts, last |-> audio.last,
                     k |-> audio.k],
                    TRUE, TRUE, OutputPath)

MergeMainCommands ==
    LET compiled == {MergeMain(second, key) :
                        second \in {WithAudio, Silent}, key \in {K_fade, K_whip_pan}}
    IN  compiled \cup {WithoutFilter(cmd) : cmd \in compiled}

MergeSfxCommands ==
    LET compiled == {CompileSfx(events, 350) : events \in MergeEvents}
    IN  compiled \cup {WithoutFilter(cmd) : cmd \in compiled}
                 \cup {WithoutTerminal(cmd) : cmd \in compiled}

MergeInit ==
    /\ NoJob
    /\ \E cmd \in MergeMainCommands, sfx_cmd \in MergeSfxCommands :
          harness = [fn |-> "merge", args |-> <<cmd, sfx_cmd>>,
                     ret |-> Ok(<<>>), done |-> FALSE]

\* lines 284-378 with the two compile() results given: the command handed to
\* the engine, or the exception raised before any is
MergeCall ==
    /\ harness.fn = "merge"
    /\ ~harness.done
    /\ LET cmd == harness.args[1]
           merge == MergeCommand(cmd, harness.args[2])
           run == Executions(TRUE, merge, cmd, "ok")[1]
       IN  harness' = [harness EXCEPT
                         !.ret = Ok([kind |-> run.kind, command |-> run.command,
                                     terminal_found |-> merge.terminal_found]),
                         !.done = TRUE]
    /\ UNCHANGED jobVars

MergeNext == MergeCall

MergeSpec == MergeInit /\ [][MergeNext]_vars


(***************************************************************************)
(* Direct calls of the two numeric normalizers, outside a job: the         *)
(* argument is any float around the accepted range, nan included; the      *)
(* normalizer is then applied a second time to its own result.             *)
(***************************************************************************)
NormalizeSlack == 5

GainInputs ==
    {Num(x) : x \in (MIN_WHIP_PAN_SFX_GAIN_DB - NormalizeSlack)
                        ..(MAX_WHIP_PAN_SFX_GAIN_DB + NormalizeSlack)} \cup {NaN}
DurationInputs ==
    {Num(x) : x \in 0..(MAX_TRANSITION_DURATION + NormalizeSlack)} \cup {NaN}

NormalizeInit ==
    /\ NoJob
    /\ \/ \E gain_db \in GainInputs :
             harness = [fn |-> "_normalize_whip_pan_sfx_gain_db", args |-> <<gain_db>>,
                        ret |-> Ok(<<>>), done |-> FALSE]
       \/ \E duration \in DurationInputs :
             harness = [fn |-> "_normalize_transition_duration", args |-> <<duration>>,
                        ret |-> Ok(<<>>), done |-> FALSE]

Normalize(fn, value) ==
    IF fn = "_normalize_whip_pan_sfx_gain_db"
    THEN _normalize_whip_pan_sfx_gain_db(value)
    ELSE _normalize_transition_duration(value)

Normalizers == {"_normalize_whip_pan_sfx_gain_db", "_normalize_transition_duration"}

\* the normalizer is called on the argument
NormalizeCall ==
    /\ harness.fn \in Normalizers
    /\ ~harness.done
    /\ harness' = [harness EXCEPT
                     !.ret = Ok(<<Normalize(harness.fn, harness.args[1])>>),
                     !.done = TRUE]
    /\ UNCHANGED jobVars

\* the normalizer is called on its own result
NormalizeAgain ==
    /\ harness.fn \in Normalizers
    /\ harness.done
    /\ Len(harness.ret.val) = 1
    /\ harness' = [harness EXCEPT
                     !.ret = Ok(Append(harness.ret.val,
                                       Normalize(harness.fn, harness.ret.val[1])))]
    /\ UNCHANGED jobVars

NormalizeNext ==
    \/ NormalizeCall
    \/ NormalizeAgain

NormalizeSpec == NormalizeInit /\ [][NormalizeNext]_vars


(***************************************************************************)
(* Two jobs in one storage directory.  Each job runs the file-naming steps *)
(* of process_video_concatenate (lines 79-87, 105, 154-174) and the two    *)
(* interleave freely.  A path is the text of the path, character by        *)
(* character; job ids are file-name components.                            *)
(***************************************************************************)
MaxPairClips == 2

DecimalDigits == <<"0","1","2","3","4","5","6","7","8","9">>

\* str(i) of an f-string
RECURSIVE Str(_)
Str(i) ==
    IF i < 10 THEN <<DecimalDigits[i + 1]>>
    ELSE Str(i \div 10) \o <<DecimalDigits[(i % 10) + 1]>>

\* os.path.join(LOCAL_STORAGE_PATH, name) for a file-name component
StoragePath(name) == <<"LOCAL_STORAGE_PATH", "/">> \o name

\* lines 80-81: f"{job_id}.mp4" in the storage directory
JobOutputPath(job_id) == StoragePath(job_id \o <<".","m","p","4">>)

\* mutant: the destination hint does not carry the job id
DestinationHintWithoutJob(job_id, i) ==
    StoragePath(<<"i","n","p","u","t","_">> \o Str(i))

\* line 86: f"{job_id}_input_{i}" in the storage directory
DestinationHint(job_id, i) ==
    StoragePath(job_id \o <<"_","i","n","p","u","t","_">> \o Str(i))

\* lines 154-160: a NamedTemporaryFile of the storage directory with the
\* suffix "_concat_list.txt"; its random part is one of two
TempStems == {<<"t","m","p","a">>, <<"t","m","p","b">>}
TempPath(stem) ==
    StoragePath(stem \o <<"_","c","o","n","c","a","t","_","l","i","s","t",".","t","x","t">>)

\* job ids one of which is a prefix of a path the other job forms
PairJobIds ==
    {<<"a">>, <<"b">>, <<"a","_","i","n","p","u","t","_","0">>, <<"a",".","m","p","4">>}

PairJob(job_id, clip_count, plain) ==
    [job_id |-> job_id, clip_count |-> clip_count, plain |-> plain, pc |-> "download",
     output_path |-> JobOutputPath(job_id), hints |-> <<>>, concat_file |-> <<>>,
     lists |-> {}]

PairInit ==
    /\ NoJob
    /\ \E first \in PairJobIds, second \in PairJobIds,
          counts \in (0..MaxPairClips) \X (0..MaxPairClips),
          plain \in BOOLEAN \X BOOLEAN :
          harness = [fn |-> "two_jobs", args |-> <<first, second>>,
                     ret |-> Ok(<<>>), done |-> FALSE,
                     jobs |-> <<PairJob(first, counts[1], plain[1]),
                                PairJob(second, counts[2], plain[2])>>,
                     storage |-> {}]

\* lines 84-87, one iteration of job j: the hint handed to download_file
PairDownload(j) ==
    LET job == harness.jobs[j]
    IN  /\ harness.fn = "two_jobs"
        /\ job.pc = "download"
        /\ Len(job.hints) < job.clip_count
        /\ harness' = [harness EXCEPT
                         !.jobs[j].hints =
                             Append(@, DestinationHint(job.job_id, Len(job.hints)))]
        /\ UNCHANGED jobVars

\* lines 95-105 and 154-160 of job j: the transition path writes no list; the
\* plain path creates a list under a name that does not exist in the directory
PairCombine(j) ==
    LET job == harness.jobs[j]
    IN  /\ harness.fn = "two_jobs"
        /\ job.pc = "download"
        /\ Len(job.hints) = job.clip_count
        /\ IF job.plain
           THEN \E stem \in TempStems :
                   /\ TempPath(stem) \notin harness.storage
                   /\ harness' = [harness EXCEPT
                                    !.jobs[j].concat_file = TempPath(stem),
                                    !.jobs[j].lists = @ \cup {TempPath(stem)},
                                    !.jobs[j].pc = "engine",
                                    !.storage = @ \cup {TempPath(stem)}]
           ELSE harness' = [harness EXCEPT !.jobs[j].pc = "engine"]
        /\ UNCHANGED jobVars

\* lines 167-174 or 366-378 of job j: the engine writes the output path or
\* fails; the list is removed
PairEngine(j) ==
    LET job == harness.jobs[j]
    IN  /\ harness.fn = "two_jobs"
        /\ job.pc = "engine"
        /\ \E outcome \in {"ok", "failed"} :
              harness' = [harness EXCEPT
                            !.jobs[j].pc = IF outcome = "ok" THEN "returned" ELSE "raised",
                            !.jobs[j].concat_file = <<>>,
                            !.storage = (IF outcome = "ok"
                                         THEN @ \cup {job.output_path} ELSE @)
                                            \ {job.concat_file}]
        /\ UNCHANGED jobVars

PairNext ==
    \E j \in 1..2 :
        \/ PairDownload(j)
        \/ PairCombine(j)
        \/ PairEngine(j)

PairSpec == PairInit /\ [][PairNext]_vars


(***************************************************************************)
(* Vocabulary of the claims.                                               *)
(***************************************************************************)
ElevenNames ==
    {K_none, K_fade, K_fade_black, K_wipe_left, K_wipe_right, K_smooth_left,
     K_smooth_right, K_whip_pan, K_circle_open, K_circle_close, K_pixelize}

\* a name after lower-casing, an absent or empty name read as "none"
Resolved(name) == Lower(IF name = None \/ name = <<>> THEN K_none ELSE name)

PlanCalled == plan_call # <<>>
PlanResult == plan_call[1]
ExplicitItems == request.transition_sequence.items
Exited == pc \in {"returned", "raised"}

\* the adjacent clips of the boundary the fold is at (or failed at)
AtBoundary(previous_tail, next_clip) ==
    /\ Len(boundaries) + 1 < Len(media_streams)
    /\ media_streams[Len(boundaries) + 1].duration = previous_tail
    /\ media_streams[Len(boundaries) + 2].duration = next_clip

\* C2 as stated: with requested = 5.0 and both adjacent clips 1.0 s long the
\* boundary fails with TransitionTooLong: no effective duration is returned for
\* such a boundary and no output is produced.
C2_TooLongFails ==
    request.transition_duration = 500
    => /\ \A i \in DOMAIN boundaries :
             ~(boundaries[i].trailing_before = 100 /\ boundaries[i].next_duration = 100)
       /\ (\A i \in DOMAIN media_streams : media_streams[i].duration = 100)
             => OutputPath \notin disk

\* C2 amended: with requested = 5.0 and both adjacent clips 1.0 s long the
\* boundary is given the truncated effective duration 0.95 s and the job does
\* not fail with TransitionTooLong there.
C2_TooLongTruncated ==
    request.transition_duration = 500
    => /\ \A i \in DOMAIN boundaries :
             (boundaries[i].trailing_before = 100 /\ boundaries[i].next_duration = 100)
             => boundaries[i].effective_duration = 95
       /\ ~(error = "TransitionTooLong" /\ AtBoundary(100, 100))

C2_Witness ==
    /\ request.transition_duration = 500
    /\ Len(boundaries) = 1
    /\ boundaries[1].trailing_before = 100
    /\ boundaries[1].next_duration = 100
    /\ pc = "returned"

\* C3: at every boundary of the fold, for positive clip durations and a
\* requested duration in [0.2, 5.0], 0 <= offset <= cumulativeDuration, the
\* running composite length just before that boundary.
C3_OffsetWithinComposite ==
    request.transition_duration \in MIN_TRANSITION_DURATION..MAX_TRANSITION_DURATION
    => \A i \in DOMAIN boundaries :
          /\ 0 <= boundaries[i].offset
          /\ boundaries[i].offset <= boundaries[i].cumulative_before

\* C4: every local path returned by the asset fetcher has been deleted by the
\* time process_video_concatenate returns or raises.
C4_InputsDeletedAtExit ==
    Exited => Range(input_files) \cap disk = {}

\* C5: every validation error is raised before any external process (probe or
\* engine) is started and leaves no downloaded input file on disk.
C5_ValidationBeforeSideEffects ==
    (pc = "raised" /\ error \in {"UnsupportedTransition", "LengthMismatch",
                                 "InvalidSequenceEntry", "TransitionTooLong"})
    => /\ started = [probes |-> 0, engine_runs |-> 0]
       /\ Range(input_files) \cap disk = {}

\* C6: for clipCount >= 2, every explicit sequence whose length differs from
\* clipCount - 1 (the empty list included) makes _build_transition_plan fail
\* with the length-mismatch error.
C6_WrongLengthRejected ==
    (PlanCalled /\ request.clip_count >= 2 /\ request.transition_sequence.present
        /\ Len(ExplicitItems) # request.clip_count - 1)
    => PlanResult = Raise("LengthMismatch")

\* C7: for clipCount >= 2 and no explicit sequence, _build_transition_plan
\* returns exactly clipCount - 1 entries, each the normalized default type.
C7_DefaultPlan ==
    (PlanCalled /\ request.clip_count >= 2 /\ ~request.transition_sequence.present)
    => /\ PlanResult.ok
       /\ Len(PlanResult.val) = request.clip_count - 1
       /\ Resolved(request.transition_type) \in ElevenNames
       /\ \A i \in DOMAIN PlanResult.val :
             PlanResult.val[i] = Resolved(request.transition_type)

C7_Witness ==
    /\ PlanCalled
    /\ request.clip_count = 3
    /\ ~request.transition_sequence.present
    /\ request.transition_type = N_Fade_Black
    /\ PlanResult = Ok(<<K_fade_black, K_fade_black>>)

ExplicitOfRightLength ==
    /\ PlanCalled
    /\ request.clip_count >= 2
    /\ request.transition_sequence.present
    /\ Len(ExplicitItems) = request.clip_count - 1

Offending(i) == Resolved(ExplicitItems[i]) \notin ElevenNames \ {K_none}

\* C8 as stated: an explicit sequence of the right length is returned
\* normalized and in order if no entry resolves to "none"; if any entry
\* resolves to "none" the call fails with the invalid-entry error, and if any
\* entry is outside the catalog it fails with the unsupported-transition error.
C8_AnyOffendingEntry ==
    ExplicitOfRightLength
    => /\ (\A i \in DOMAIN ExplicitItems : ~Offending(i))
             => PlanResult = Ok([i \in DOMAIN ExplicitItems |-> Resolved(ExplicitItems[i])])
       /\ (\E i \in DOMAIN ExplicitItems : Resolved(ExplicitItems[i]) = K_none)
             => PlanResult = Raise("InvalidSequenceEntry")
       /\ (\E i \in DOMAIN ExplicitItems : Resolved(ExplicitItems[i]) \notin ElevenNames)
             => PlanResult = Raise("UnsupportedTransition")
       /\ PlanResult.ok => \A i \in DOMAIN PlanResult.val : PlanResult.val[i] # K_none

\* C8 amended: an explicit sequence of the right length is returned normalized
\* and in order if no entry resolves to "none" or lies outside the catalog;
\* otherwise the call fails with the error of the first such entry in order:
\* invalid-entry if it resolves to "none", unsupported-transition if it is
\* outside the catalog.  A returned explicit plan never contains "none".
C8_FirstOffendingEntry ==
    ExplicitOfRightLength
    => /\ (\A i \in DOMAIN ExplicitItems : ~Offending(i))
             => PlanResult = Ok([i \in DOMAIN ExplicitItems |-> Resolved(ExplicitItems[i])])
       /\ \A i \in DOMAIN ExplicitItems :
             (Offending(i) /\ \A j \in 1..(i - 1) : ~Offending(j))
             => PlanResult = IF Resolved(ExplicitItems[i]) = K_none
                             THEN Raise("InvalidSequenceEntry")
                             ELSE Raise("UnsupportedTransition")
       /\ PlanResult.ok => \A i \in DOMAIN PlanResult.val : PlanResult.val[i] # K_none

C8_Witness ==
    /\ PlanCalled
    /\ request.clip_count = 3
    /\ request.transition_sequence = Sequence(<<K_none, N_bogus>>)
    /\ PlanResult = Raise("InvalidSequenceEntry")

\* C9: for clipCount <= 1, _build_transition_plan returns the empty plan
\* whatever the default type and the explicit sequence, and the job takes the
\* plain concatenation path even when transition_type is not "none".
C9_SingleClipPlainPath ==
    (PlanCalled /\ request.clip_count <= 1)
    => /\ PlanResult = Ok(<<>>)
       /\ pc \in {"concat", "concat_run", "cleanup", "returned", "raised"}
       /\ started.probes = 0
       /\ boundaries = <<>>
       /\ pc = "raised" => error \in {"ConcatListWriteFailed", "EngineExecutionFailed",
                                      "OutputMissing"}

C9_Witness ==
    /\ PlanCalled
    /\ request.clip_count = 1
    /\ request.transition_type = N_WHIP_PAN
    /\ request.transition_sequence = Sequence(<<N_bogus, K_fade>>)
    /\ PlanResult = Ok(<<>>)
    /\ started.engine_runs = 1
    /\ pc = "returned"

\* C10: _normalize_transition_type accepts exactly the eleven catalog names
\* (after lower-casing, an absent or empty name read as "none") and returns
\* the catalog key; every other name is rejected with the
\* unsupported-transition error before any download starts.
C10_CatalogClosed ==
    /\ validated_transition # <<>>
          => /\ validated_transition = Resolved(request.transition_type)
             /\ validated_transition \in ElevenNames
    /\ (pc # "validate" /\ Resolved(request.transition_type) \notin ElevenNames)
          => (pc = "raised" /\ error = "UnsupportedTransition")
    /\ error = "UnsupportedTransition" => (input_files = <<>> /\ disk = {})

\* the engine runs of the transition path
TransitionRuns == {i \in DOMAIN engine_log : engine_log[i].kind # "concat"}
EventCollected == \E i \in DOMAIN boundaries : boundaries[i].sfx = "track"

\* the labels a graph mentions
GraphLabelSet(graph) == Range(GraphLabels(graph))

\* C11 as stated: when a dedicated SFX track id is given and the transition
\* path is taken, the engine command always maps three streams (video, main
\* audio, SFX track), also when no boundary is a whip_pan.
C11_ThreeStreamsWhenTrackRequested ==
    \A i \in TransitionRuns :
        normalized_sfx_track_id.present
            => /\ Len(engine_log[i].command.maps) = 3
               /\ engine_log[i].sfx_bus

\* C11 amended: when a dedicated SFX track id is given and the transition path
\* is taken, the engine command maps three streams only if a whip_pan boundary
\* contributed an SFX event; when no boundary is a whip_pan the command maps
\* two streams (video, main audio) and no silence track is built.
C11_ThreeStreamsOnlyWithEvents ==
    \A i \in TransitionRuns :
        normalized_sfx_track_id.present
            => /\ Len(engine_log[i].command.maps) = 3 => EventCollected
               /\ (\A b \in DOMAIN boundaries : boundaries[b].key # K_whip_pan)
                     => /\ Len(engine_log[i].command.maps) = 2
                        /\ ~engine_log[i].sfx_bus
                        /\ \A st \in Range(engine_log[i].command.filter_complex[1]) :
                              st.f # "amix"

C11_Witness ==
    /\ normalized_sfx_track_id.present
    /\ Len(boundaries) = 2
    /\ \A b \in DOMAIN boundaries : boundaries[b].key = K_fade
    /\ Len(engine_log) = 1
    /\ engine_log[1].kind = "plain"
    /\ pc = "returned"

\* C12: on the transition path the SFX track is built and the three-mapping
\* command is run exactly when a track id was given and at least one SFX event
\* was collected; otherwise one command with one video and one main-audio
\* mapping and no SFX link runs.
C12_SfxTrackExactlyWhenCollected ==
    \A i \in TransitionRuns :
        LET run == engine_log[i]
            wanted == normalized_sfx_track_id.present /\ EventCollected
            labels == GraphLabelSet(run.command.filter_complex[1])
        IN  /\ run.sfx_bus <=> wanted
            /\ run.kind = "three_map" <=> wanted
            /\ wanted => /\ Len(run.command.maps) = 3
                         /\ run.command.maps[3] = SfxFinal
                         /\ SfxFinal \in labels
            /\ ~wanted => /\ Len(engine_log) = 1
                          /\ Len(run.command.maps) = 2
                          /\ \A l \in labels : l.k \notin {"sfx", "sfx_final"}

C12_Witness ==
    /\ Len(engine_log) = 1
    /\ engine_log[1].kind = "three_map"
    /\ normalized_sfx_track_id.present
    /\ Len(sfx_streams) = 1
    /\ pc = "returned"

\* whether the merge can locate both filter graphs and the terminal label of
\* the SFX graph
GraphsLocated(cmd, sfx_cmd) ==
    /\ cmd.filter_complex # <<>>
    /\ sfx_cmd.filter_complex # <<>>
    /\ LET graph == sfx_cmd.filter_complex[1]
       IN  /\ graph # <<>>
           /\ graph[Len(graph)].outs # <<>>
           /\ graph[Len(graph)].outs[Len(graph[Len(graph)].outs)].k = "s"

IsFade(st) == st.f = "acrossfade"
IsBlend(st) == st.f = "blend"
IsMix(st) == st.f = "amix"
WhipPanBoundaries == {i \in DOMAIN boundaries : boundaries[i].key = K_whip_pan}

\* C14: when the whoosh asset is absent a whip_pan boundary raises no error:
\* its video composite is still built, the main audio is the plain cross-fade
\* of the effective duration, no SFX event is collected, and the job can end
\* as it does with the asset; two 2.0 s clips give a composite longer than
\* 3.0 s.
C14_MissingAssetSkipsEffect ==
    ~whoosh_exists
    => /\ sfx_streams = <<>>
       /\ \A i \in WhipPanBoundaries : boundaries[i].sfx = "none"
       /\ Len(SelectSeq(current_video.stmts, IsBlend)) = Cardinality(WhipPanBoundaries)
       /\ SelectSeq(current_audio.stmts, IsMix) = <<>>
       /\ LET fades == SelectSeq(current_audio.stmts, IsFade)
          IN  /\ Len(fades) = Len(boundaries)
              /\ \A i \in DOMAIN boundaries :
                    fades[i].d = boundaries[i].effective_duration
       /\ error \notin {"TransitionTooLong", "UnexpectedNone"}
       /\ \A i \in TransitionRuns : engine_log[i].kind = "plain"
       /\ (/\ Len(media_streams) = 2
           /\ Len(boundaries) = 1
           /\ \A c \in DOMAIN media_streams : media_streams[c].duration = 200)
             => cumulative_duration > 300

C14_Witness ==
    /\ ~whoosh_exists
    /\ Len(media_streams) = 2
    /\ \A c \in DOMAIN media_streams : media_streams[c].duration = 200
    /\ WhipPanBoundaries = {1}
    /\ normalized_sfx_track_id.present
    /\ cumulative_duration = 350
    /\ pc = "returned"

\* C15: the job returns the output path only after an engine run that exited
\* with status zero and with the file present at the output path; after a
\* non-zero exit, or with the file missing, it raises and returns nothing.
C15_ReturnsOnlyExistingOutput ==
    /\ returned # <<>> => pc = "returned"
    /\ pc = "returned"
          => /\ returned = OutputPath
             /\ OutputPath \in disk
             /\ engine_log # <<>>
             /\ \A i \in DOMAIN engine_log : engine_log[i].outcome = "ok"
    /\ \A i \in DOMAIN engine_log :
          /\ engine_log[i].outcome = "failed"
                => (pc = "raised" /\ error = "EngineExecutionFailed")
          /\ engine_log[i].outcome = "ok_no_file"
                => \/ pc = "cleanup"
                   \/ (pc = "raised" /\ error = "OutputMissing")

C15_Witness ==
    /\ pc = "raised"
    /\ error = "OutputMissing"
    /\ Len(engine_log) = 1
    /\ engine_log[1].kind = "plain"
    /\ engine_log[1].outcome = "ok_no_file"
    /\ returned = <<>>

\* C16: the job takes the plain stream-copy path (no probe, no filter graph)
\* exactly when the plan has no entry other than "none"; the concat list then
\* names every downloaded clip once, in request order.  A plan with any other
\* entry takes the transition path.
C16_PlainPathExactlyWithoutTransitions ==
    (PlanCalled /\ PlanResult.ok)
    => LET plain == \A i \in DOMAIN PlanResult.val : PlanResult.val[i] = K_none
       IN  /\ plain
                => /\ pc \notin {"probe", "fold"}
                   /\ started.probes = 0
                   /\ media_streams = <<>>
                   /\ boundaries = <<>>
                   /\ \A i \in DOMAIN engine_log :
                         /\ engine_log[i].kind = "concat"
                         /\ engine_log[i].command.filter_complex = <<>>
                         /\ engine_log[i].command.inputs = <<ConcatListPath>>
                         /\ engine_log[i].list =
                                [j \in 1..request.clip_count |-> InputPath(j)]
           /\ ~plain
                => /\ pc \notin {"concat", "concat_run"}
                   /\ ConcatListPath \notin disk
                   /\ error # "ConcatListWriteFailed"
                   /\ \A i \in DOMAIN engine_log :
                         /\ engine_log[i].kind # "concat"
                         /\ engine_log[i].command.filter_complex # <<>>
                         /\ started.probes = request.clip_count

C16_Witness ==
    /\ PlanCalled
    /\ PlanResult = Ok(<<K_none, K_none>>)
    /\ request.clip_count = 3
    /\ Len(engine_log) = 1
    /\ engine_log[1].list = <<InputPath(1), InputPath(2), InputPath(3)>>
    /\ pc = "returned"

\* a float lies in [low, high]
Within(value, low, high) == ~value.nan /\ low <= value.v /\ value.v <= high

\* what clamping to [low, high] gives for a float as the claims describe it:
\* the value itself inside the range, the nearer bound outside
Clamped(value, result, low, high) ==
    /\ Within(result, low, high)
    /\ Within(value, low, high) => result = value
    /\ (~value.nan /\ value.v < low) => result = Num(low)
    /\ (~value.nan /\ value.v > high) => result = Num(high)

\* C17: for every numeric input _normalize_whip_pan_sfx_gain_db returns a value
\* in [-60.0, 6.0]: the input itself inside the range, the nearer bound
\* outside; applied to its own result it returns that result.
C17_GainClampedIdempotent ==
    (harness.fn = "_normalize_whip_pan_sfx_gain_db" /\ harness.done)
    => /\ Clamped(harness.args[1], harness.ret.val[1],
                  MIN_WHIP_PAN_SFX_GAIN_DB, MAX_WHIP_PAN_SFX_GAIN_DB)
       /\ Len(harness.ret.val) = 2 => harness.ret.val[2] = harness.ret.val[1]

\* C18: for every numeric input _normalize_transition_duration returns a value
\* in [0.2, 5.0]: the input itself inside the range, 0.2 below it and 5.0 above
\* it, so that the duration handed to the timing resolver is never below
\* MIN_TRANSITION_DURATION.
C18_DurationClamped ==
    (harness.fn = "_normalize_transition_duration" /\ harness.done)
    => /\ Clamped(harness.args[1], harness.ret.val[1],
                  MIN_TRANSITION_DURATION, MAX_TRANSITION_DURATION)
       /\ ~Less(harness.ret.val[1], Num(MIN_TRANSITION_DURATION))

\* C19: the engine is executed at most once per job: after a failed
\* execution, that of the three-mapping command included, no other command is
\* run and the job fails.
C19_EngineRunsAtMostOnce ==
    /\ started.engine_runs <= 1
    /\ Len(engine_log) = started.engine_runs
    /\ \A i \in DOMAIN engine_log :
          engine_log[i].outcome = "failed"
             => /\ pc = "raised"
                /\ error = "EngineExecutionFailed"
                /\ returned = <<>>
                /\ OutputPath \notin disk

C19_Witness ==
    /\ Len(engine_log) = 1
    /\ engine_log[1].kind = "three_map"
    /\ engine_log[1].outcome = "failed"
    /\ started.engine_runs = 1
    /\ pc = "raised"

\* C20: the concat list is removed on every way out of
\* _concatenate_with_concat_demuxer: after a successful engine run, when
\* writing the list raises and when the engine run raises.
C20_ConcatListRemoved ==
    /\ pc # "concat_run" => ConcatListPath \notin disk
    /\ error \in {"ConcatListWriteFailed", "EngineExecutionFailed"}
          => ConcatListPath \notin disk
    /\ \A i \in DOMAIN engine_log :
          engine_log[i].kind = "concat" => ConcatListPath \notin disk

C20_Witness ==
    /\ Len(engine_log) = 1
    /\ engine_log[1].kind = "concat"
    /\ engine_log[1].outcome = "failed"
    /\ request.clip_count = 2
    /\ pc = "raised"
    /\ ConcatListPath \notin disk

\* C21: two jobs with distinct job ids that run concurrently in the same
\* storage directory never use the same output path, the same download
\* destination hint or the same concat-list file, for any interleaving of
\* their steps and any numbers of clips.
C21_JobUniqueNames ==
    (harness.fn = "two_jobs" /\ harness.args[1] # harness.args[2])
    => LET first == harness.jobs[1]
           second == harness.jobs[2]
       IN  /\ first.output_path # second.output_path
           /\ Range(first.hints) \cap Range(second.hints) = {}
           /\ (first.concat_file # <<>> /\ second.concat_file # <<>>)
                 => first.concat_file # second.concat_file
           /\ \A j \in 1..2 :
                 /\ harness.jobs[j].concat_file # <<>>
                       => harness.jobs[j].concat_file \in harness.storage
                 /\ harness.jobs[j].output_path
                       \notin Range(harness.jobs[3 - j].hints) \cup harness.jobs[3 - j].lists

C21_Witness ==
    /\ harness.fn = "two_jobs"
    /\ harness.args = <<<<"a">>, <<"a","_","i","n","p","u","t","_","0">>>>
    /\ \A j \in 1..2 :
          /\ Len(harness.jobs[j].hints) = 2
          /\ harness.jobs[j].concat_file # <<>>

\* the sum of the numbers of a sequence
RECURSIVE SumSeq(_)
SumSeq(q) == IF q = <<>> THEN 0 ELSE Head(q) + SumSeq(Tail(q))

ClipDurations == [c \in DOMAIN media_streams |-> media_streams[c].duration]
EffectiveDurations == [i \in DOMAIN boundaries |-> boundaries[i].effective_duration]

\* the fold has processed every boundary of at least two clips
FoldFinished ==
    /\ Len(media_streams) >= 2
    /\ Len(boundaries) = Len(media_streams) - 1

\* C22: after the fold has processed all boundaries, cumulativeDuration is the
\* sum of the clip durations minus the sum of the boundaries' effective
\* durations and trailingClipDuration is the last clip's duration; for two
\* clips the composite is shorter than the naive sum and, when both clips are
\* at least 0.25 s, longer than either clip (two 2.0 s clips with requested 0.5
\* give 3.5).
C22_CompositeLength ==
    FoldFinished
    => /\ cumulative_duration = SumSeq(ClipDurations) - SumSeq(EffectiveDurations)
       /\ trailing_clip_duration = media_streams[Len(media_streams)].duration
       /\ Len(media_streams) = 2
             => /\ cumulative_duration < ClipDurations[1] + ClipDurations[2]
                /\ (ClipDurations[1] >= 25 /\ ClipDurations[2] >= 25)
                      => /\ cumulative_duration > ClipDurations[1]
                         /\ cumulative_duration > ClipDurations[2]
                /\ (ClipDurations = <<200, 200>> /\ request.transition_duration = 50)
                      => cumulative_duration = 350

C22_Witness ==
    /\ FoldFinished
    /\ ClipDurations = <<200, 200>>
    /\ request.transition_duration = 50
    /\ validated_transition = K_fade
    /\ cumulative_duration = 350
    /\ trailing_clip_duration = 200
    /\ pc = "returned"

ThreeMapRuns == {i \in DOMAIN engine_log : engine_log[i].kind = "three_map"}

\* C23: the silence bus of the dedicated SFX track is trimmed to exactly the
\* final cumulativeDuration of the composite and the mix takes its duration
\* from that bus, so the SFX track of the command that runs is as long as the
\* composite, whatever the number of mixed events and wherever they start.
C23_SfxTrackSpansComposite ==
    \A i \in ThreeMapRuns :
        LET command == engine_log[i].command
            part == SfxPart(command.filter_complex[1])
            bus == part[1]
            mix == part[Len(part)]
        IN  /\ bus.f = "atrim"
            /\ bus.d = cumulative_duration
            /\ part[2].f = "asetpts"
            /\ part[2].ins = bus.outs
            /\ mix.f = "amix"
            /\ mix.ins[1] = part[2].outs[1]
            /\ Len(mix.ins) = Len(sfx_streams) + 1
            /\ mix.outs = <<SfxFinal>>
            /\ InputOf(command, bus.ins[1]) = SilenceSource
            /\ SfxTrackLength(command, media_streams) = cumulative_duration

\* the two sub-graphs of the combined graph of a three-mapping command: the
\* main graph as compiled, then the spliced SFX graph
MainCount == Len(current_video.stmts) + Len(current_audio.stmts)
MainSubGraph(command) == SubSeq(command.filter_complex[1], 1, MainCount)
SfxSubGraph(command) ==
    SubSeq(command.filter_complex[1], MainCount + 1, Len(command.filter_complex[1]))

\* link labels: the names a graph defines, as opposed to input references
IsInputReference(label) == label.k \in {"v", "a"}
LinkNames(graph) == {l \in GraphLabelSet(graph) : ~IsInputReference(l)}
DefinedLabels(graph) == UNION {Range(graph[i].outs) : i \in DOMAIN graph}
UsedLabels(graph) == UNION {Range(graph[i].ins) : i \in DOMAIN graph}

\* a label of the spliced SFX graph is the rewritten label of the compiled one
Rewritten(compiled, spliced) ==
    IF compiled.k = "s"
    THEN spliced = SfxN(compiled.n) \/ spliced = SfxFinal
    ELSE spliced = compiled

\* C24: in the combined filter graph produced by the SFX merge, every [sN]
\* label of the SFX sub-graph has been rewritten to [sfxN], the SFX sub-graph's
\* single terminal label is the sentinel [sfx], and no link label is defined or
\* used in both the main sub-graph and the SFX sub-graph.
C24_DisjointLabelNamespaces ==
    \A i \in ThreeMapRuns :
        LET command == engine_log[i].command
            main == MainSubGraph(command)
            sfx == SfxSubGraph(command)
            compiled == CompileSfx(sfx_streams, cumulative_duration).filter_complex[1]
        IN  /\ Len(sfx) = Len(compiled)
            /\ \A n \in DOMAIN sfx :
                  /\ sfx[n].f = compiled[n].f
                  /\ DOMAIN sfx[n].ins = DOMAIN compiled[n].ins
                  /\ DOMAIN sfx[n].outs = DOMAIN compiled[n].outs
                  /\ \A p \in DOMAIN sfx[n].ins :
                        Rewritten(compiled[n].ins[p], sfx[n].ins[p])
                  /\ \A p \in DOMAIN sfx[n].outs :
                        Rewritten(compiled[n].outs[p], sfx[n].outs[p])
            /\ \A l \in GraphLabelSet(sfx) : l.k # "s"
            /\ DefinedLabels(sfx) \ UsedLabels(sfx) = {SfxFinal}
            /\ SfxFinal \notin UsedLabels(sfx)
            /\ \A l \in LinkNames(main) : l.k = "s"
            /\ LinkNames(main) \cap LinkNames(sfx) = {}

C24_Witness ==
    /\ ThreeMapRuns = {1}
    /\ Len(sfx_streams) = 2
    /\ Link(0) \in LinkNames(MainSubGraph(engine_log[1].command))
    /\ SfxN(0) \in LinkNames(SfxSubGraph(engine_log[1].command))
    /\ pc = "returned"

\* C25: in the three-mapping command the first -map names the main graph's
\* terminal video label, the second the main graph's terminal main-audio label
\* and the third [sfx]; neither of the first two labels is consumed as an input
\* by any filter of the combined graph, for every number of clips >= 2 and
\* every plan containing a whip_pan boundary.
C25_MapsNameTerminals ==
    \A i \in ThreeMapRuns :
        LET command == engine_log[i].command
            graph == command.filter_complex[1]
            main == MainSubGraph(command)
            maps == command.maps
        IN  /\ Len(maps) = 3
            /\ maps[1] = current_video.last
            /\ maps[2] = main[Len(main)].outs[1]
            /\ maps[3] = SfxFinal
            /\ maps[1] \notin UsedLabels(graph)
            /\ maps[2] \notin UsedLabels(graph)

\* the input references [k:a] a graph reads
InputReferences(graph) == {l \in UsedLabels(graph) : IsInputReference(l)}

\* C26: in the merged three-mapping command every input reference of the
\* spliced SFX sub-graph denotes the source (silence generator or whoosh
\* asset) it denoted in the independently compiled SFX command: the merged
\* input list holds the SFX sources at the indices the SFX sub-graph uses, and
\* no SFX reference resolves to a clip input.
C26_SfxInputsPreserved ==
    \A i \in ThreeMapRuns :
        LET command == engine_log[i].command
            sfx_cmd == CompileSfx(sfx_streams, cumulative_duration)
        IN  \A l \in InputReferences(SfxSubGraph(command)) :
                /\ l.n + 1 \in DOMAIN command.inputs
                /\ InputOf(command, l) = InputOf(sfx_cmd, l)
                /\ InputOf(command, l) \in {SilenceSource, WhooshSource}
                /\ InputOf(command, l) \notin Range(input_files)

IsWhipPan(boundary) == boundary.key = K_whip_pan
IsWhooshTrim(st) == st.f = "atrim" /\ st.ins = <<WhooshPad>>

\* C27: at every whip_pan boundary the main audio is cross-faded over
\* effectiveDuration and the sound effect goes to exactly one place: it is
\* mixed into the main audio iff no SFX track id was requested and the asset
\* exists, and it is collected as an SfxEvent carrying that boundary's offset
\* iff a track id was requested and the asset exists; never both.  Boundaries
\* of any other transition type collect no SfxEvent and mix no sound effect.
C27_SoundEffectGoesToOnePlace ==
    LET whips == SelectSeq(boundaries, IsWhipPan)
        fades == SelectSeq(current_audio.stmts, IsFade)
        mixes == SelectSeq(current_audio.stmts, IsMix)
        trims == SelectSeq(current_audio.stmts, IsWhooshTrim)
        to_main == ~normalized_sfx_track_id.present /\ whoosh_exists
        to_track == normalized_sfx_track_id.present /\ whoosh_exists
    IN  /\ Len(fades) = Len(boundaries)
        /\ \A i \in DOMAIN boundaries : fades[i].d = boundaries[i].effective_duration
        /\ Len(mixes) = IF to_main THEN Len(whips) ELSE 0
        /\ Len(trims) = Len(mixes)
        /\ \A i \in DOMAIN trims : trims[i].d = whips[i].effective_duration
        /\ Len(sfx_streams) = IF to_track THEN Len(whips) ELSE 0
        /\ \A i \in DOMAIN sfx_streams :
              /\ sfx_streams[i].offset = whips[i].offset
              /\ sfx_streams[i].duration = whips[i].effective_duration
              /\ sfx_streams[i].stream.present
        /\ ~(mixes # <<>> /\ sfx_streams # <<>>)
        /\ whips = <<>> => (mixes = <<>> /\ sfx_streams = <<>>)

C27_Witness ==
    /\ ~normalized_sfx_track_id.present
    /\ whoosh_exists
    /\ Len(boundaries) = 2
    /\ boundaries[1].key = K_whip_pan
    /\ boundaries[2].key = K_fade
    /\ Len(SelectSeq(current_audio.stmts, IsMix)) = 1
    /\ sfx_streams = <<>>
    /\ pc = "returned"

\* C28: through process_video_concatenate the requested duration has been
\* normalized into [0.2, 5.0] and _effective_transition_duration never raises:
\* for all positive clip durations its result is >= 0.2, so the
\* TransitionTooLong error is unreachable and a boundary between clips shorter
\* than the transition is given a truncated (or floor 0.2 s) duration instead
\* of an error.
C28_TooLongUnreachable ==
    /\ error # "TransitionTooLong"
    /\ pc \notin {"validate", "raised"}
          => normalized_duration \in MIN_TRANSITION_DURATION..MAX_TRANSITION_DURATION
    /\ \A i \in DOMAIN boundaries :
          LET b == boundaries[i]
              shortest == Min(b.trailing_before, b.next_duration)
          IN  /\ b.requested = normalized_duration
              /\ b.effective_duration >= MIN_TRANSITION_DURATION
              /\ b.effective_duration <= b.requested
              /\ shortest - SAFETY_MARGIN >= b.requested
                    => b.effective_duration = b.requested
              /\ shortest - SAFETY_MARGIN < b.requested
                    => b.effective_duration =
                           Max(shortest - SAFETY_MARGIN, MIN_TRANSITION_DURATION)
    /\ (pc = "fold" /\ Len(boundaries) + 1 < Len(media_streams))
          => _effective_transition_duration(
                 normalized_duration, trailing_clip_duration,
                 media_streams[Len(boundaries) + 2].duration).ok

C28_Witness ==
    /\ request.transition_duration = 600
    /\ Len(boundaries) = 2
    /\ boundaries[1].trailing_before = 100
    /\ boundaries[1].next_duration = 10
    /\ boundaries[1].effective_duration = 20
    /\ boundaries[2].next_duration = 200
    /\ boundaries[2].effective_duration = 20
    /\ pc = "returned"

\* C29: if every clip duration is at least 0.25 s, then at every boundary of
\* the fold effectiveDuration <= min(trailingClipDuration, nextClipDuration)
\* - 0.05, cumulativeDuration >= trailingClipDuration and cumulativeDuration
\* strictly increases from one boundary to the next, and the boundary offsets
\* are strictly positive and strictly increasing in boundary order (the
\* max(.., 0) clamp never applies).
C29_FoldMonotone ==
    (\A c \in DOMAIN media_streams : media_streams[c].duration >= 25)
    => /\ \A i \in DOMAIN boundaries :
             LET b == boundaries[i]
             IN  /\ b.effective_duration
                       <= Min(b.trailing_before, b.next_duration) - SAFETY_MARGIN
                 /\ b.cumulative_before >= b.trailing_before
                 /\ b.offset > 0
                 /\ b.offset = b.cumulative_before - b.effective_duration
                 /\ i > 1 => /\ b.cumulative_before > boundaries[i - 1].cumulative_before
                             /\ b.offset > boundaries[i - 1].offset
       /\ boundaries # <<>>
             => /\ cumulative_duration > boundaries[Len(boundaries)].cumulative_before
                /\ cumulative_duration >= trailing_clip_duration

C29_Witness ==
    /\ request.transition_duration = 500
    /\ ClipDurations = <<25, 100, 25>>
    /\ Len(boundaries) = 2
    /\ boundaries[1].offset = 5
    /\ boundaries[2].offset = 85
    /\ cumulative_duration = 110
    /\ pc = "returned"

\* the plan has been handed to _concatenate_with_transitions
HandedToTransitions == pc \in {"probe", "fold"} \/ started.probes > 0

\* C30: every plan that process_video_concatenate hands to
\* _concatenate_with_transitions has length clipCount - 1 and contains no
\* "none" entry, for every request (default type with or without explicit
\* sequence); hence the fold reads exactly one plan entry per boundary, in
\* order, and its "transition plan unexpectedly requested none" error is
\* unreachable.
C30_HandedPlansComplete ==
    /\ HandedToTransitions
          => /\ request.clip_count >= 2
             /\ Len(transition_plan) = request.clip_count - 1
             /\ \A i \in DOMAIN transition_plan :
                   transition_plan[i] \in ElevenNames \ {K_none}
    /\ Len(boundaries) <= Len(transition_plan)
    /\ \A i \in DOMAIN boundaries : boundaries[i].key = transition_plan[i]
    /\ TransitionRuns # {} => Len(boundaries) = Len(transition_plan)
    /\ error # "UnexpectedNone"

C30_Witness ==
    /\ request.transition_type = K_none
    /\ request.transition_sequence = Sequence(<<K_fade, N_WHIP_PAN>>)
    /\ request.clip_count = 3
    /\ transition_plan = <<K_fade, K_whip_pan>>
    /\ Len(boundaries) = 2
    /\ boundaries[2].key = K_whip_pan
    /\ pc = "returned"

====
